---- MODULE Spec2Model ----
(***************************************************************************)
(* Model of the language-learning tool's transcription worker              *)
(* (src/main.py, WhisperWorker), its audio player and recorder             *)
(* (src/audio_player.py, AudioPlayer / AudioRecorder / AudioManager) and   *)
(* the per-segment widget that drives them (src/main.py,                   *)
(* AudioSegmentWidget).                                                    *)
(*                                                                         *)
(* Threads are modelled statement by statement: every read or write of a   *)
(* shared attribute (is_playing, is_recording, audio_data, is_running) is  *)
(* its own step, so that every interleaving the interpreter can produce    *)
(* is a behaviour of the model.                                            *)
(***************************************************************************)
EXTENDS Integers, Sequences, FiniteSets, TLC

VARIABLES
    \* ---- WhisperWorker (src/main.py) ----
    w_pc,            \* position of run()
    is_running,      \* WhisperWorker.is_running
    result,          \* what model.transcribe returned
    audio_len,       \* len(audio_data) returned by librosa.load
    segments,        \* the list built by _process_segments
    w_i,             \* index i of the emit loop (0-based)
    w_events,        \* signals emitted by the worker, in order
    cancel_observed, \* the emit loop read is_running = False and broke out
    w_raised,        \* the stage that raised, or "none"
    \* ---- AudioPlayer (src/audio_player.py) ----
    is_playing,      \* AudioPlayer.is_playing
    playback_thread, \* AudioPlayer.playback_thread: a thread id, or 0 for None
    p_th,            \* the playback threads created so far, by id
    play_audio_raised, \* a play_audio call ended in its except branch
    \* ---- AudioRecorder (src/audio_player.py) ----
    is_recording,    \* AudioRecorder.is_recording
    recording_thread,\* AudioRecorder.recording_thread: a thread id, or 0
    audio_data,      \* AudioRecorder.audio_data: one entry per chunk read
    dropped,         \* a chunk was read while the modelled list was full
    r_th,            \* the recording threads created so far, by id
    \* ---- GUI thread: AudioManager and AudioSegmentWidget ----
    mpc,             \* where the GUI thread is ("idle": in the event loop)
    m_arg,           \* audio_data of the play_audio call in progress
    current_callback,\* AudioManager.current_callback
    queue,           \* signals queued to the GUI thread's slots
    user_recording,  \* segment.user_recording
    segment_audio,   \* segment.audio_data
    n_toggles,       \* calls of _toggle_recording so far (counted up to 2)
    second_toggle_early \* the 2nd toggle came before any chunk was captured

w_vars == <<w_pc, is_running, result, audio_len, segments, w_i, w_events,
            cancel_observed, w_raised>>

p_vars == <<is_playing, playback_thread, p_th, play_audio_raised>>

r_vars == <<is_recording, recording_thread, audio_data, dropped, r_th>>

m_vars == <<mpc, m_arg, current_callback, queue, user_recording, segment_audio>>

g_vars == <<n_toggles, second_toggle_early>>

a_vars == <<p_vars, r_vars, m_vars, g_vars>>

vars == <<w_vars, a_vars>>

----------------------------------------------------------------------------
(* Bounds of the model *)

MaxSpans == 2

\* playback threads, recording threads created in one behaviour
MaxPlay == 2

MaxRec == 2

\* playback and recording threads one widget creates in one behaviour
MaxSessions == 2

\* chunks the modelled accumulator holds; further chunks are dropped
MaxAcc == 2

(* Program constants *)

SampleRate == 16000

\* chunk_size = 1024 / frames_per_buffer=1024
ChunkSize == 1024

\* Times are seconds held as multiples of 1/TimeUnit s.  Every such time, and
\* its product with the sample rate, is a dyadic rational a double holds
\* exactly, so the float arithmetic of the source is exact on this grid.
TimeUnit == 512

TimeGrid == {0, 3, 512, 1280, 1536, 1600}

Texts == {<<"h", "i">>, <<" ", "y", "o", " ">>}

AudioLens == {3 * SampleRate}

Min(a, b) == IF a < b THEN a ELSE b

\* lengths (in samples) of the buffers handed to play_audio
BufLens == {0, ChunkSize + 500}

\* amplitudes are multiples of 1/AmpUnit; a sample value is num/den
AmpUnit == 2

Sample(pos, num) == [pos |-> pos, num |-> num, den |-> AmpUnit]

\* a float32 array of n samples: the samples listed, every other sample 0.0
EmptyBuffer == [n |-> 0, samples |-> {}]

\* of each length: a buffer whose peak is 1.5, in its second chunk, and a
\* buffer whose peak is exactly 1.0
BuffersOfLen(n) ==
    IF n = 0
      THEN {EmptyBuffer}
      ELSE {[n |-> n, samples |-> {Sample(0, 1), Sample(ChunkSize, -3)}],
            [n |-> n, samples |-> {Sample(0, 2), Sample(n - 1, -1)}]}

Buffers == UNION {BuffersOfLen(n) : n \in BufLens}

\* a captured recording of k chunks: device samples lie within [-1, 1]
\* (silence here)
RecordedBuffer(k) == [n |-> ChunkSize * k, samples |-> {}]

Abs(x) == IF x < 0 THEN -x ELSE x

\* np.max(np.abs(audio_data)), as a numerator over AmpUnit
PeakNum(b) ==
    IF b.samples = {}
      THEN 0
      ELSE CHOOSE m \in {Abs(s.num) : s \in b.samples} :
               \A s \in b.samples : Abs(s.num) <= m

\* the buffer is passed on as it is
Normalize_Skip(b) == b

\* if np.max(np.abs(audio_data)) > 1.0:
\*     audio_data = audio_data / np.max(np.abs(audio_data))
\* (num/AmpUnit) / (peak/AmpUnit) = num/peak
Normalize(b) ==
    IF PeakNum(b) > AmpUnit
      THEN [b EXCEPT !.samples = {[s EXCEPT !.den = PeakNum(b)] : s \in b.samples}]
      ELSE b

\* chunk = audio_data[i:i + chunk_size], padded with zeros to chunk_size
Chunk(b, i) ==
    LET len == Min(ChunkSize, b.n - i)
    IN  [off |-> i, len |-> len, pad |-> ChunkSize - len,
         samples |-> {[s EXCEPT !.pos = @ - i] :
                         s \in {x \in b.samples : x.pos >= i /\ x.pos < i + ChunkSize}}]

None == "None"

----------------------------------------------------------------------------
(* Pure helpers *)


\* str.strip(): drop leading and trailing blanks
RECURSIVE LStrip(_)
LStrip(s) == IF s # <<>> /\ Head(s) = " " THEN LStrip(Tail(s)) ELSE s

RECURSIVE RStrip(_)
RStrip(s) ==
    IF s # <<>> /\ s[Len(s)] = " " THEN RStrip(SubSeq(s, 1, Len(s) - 1)) ELSE s

Strip(s) == RStrip(LStrip(s))

\* (faulty variant: the sample index rounded to nearest, half to even)
ToSample_Round(t, rate) ==
    LET q == (t * rate) \div TimeUnit
        r == (t * rate) % TimeUnit
    IN  IF 2 * r > TimeUnit \/ (2 * r = TimeUnit /\ q % 2 = 1) THEN q + 1 ELSE q

\* int(t * sample_rate) for t >= 0: truncation toward zero
ToSample(t, rate) == (t * rate) \div TimeUnit

\* (faulty variant: endpoints beyond the array are kept)
Slice_NoClamp(n, a, b) == [lo |-> a, hi |-> IF b < a THEN a ELSE b]

\* audio_data[a:b] for 0 <= a, 0 <= b on an array of length n: the slice is the
\* half-open index range [lo, hi) of the array; endpoints beyond n are clamped

Slice(n, a, b) ==
    LET lo == Min(a, n)
        hi == Min(b, n)
    IN  [lo |-> lo, hi |-> IF hi < lo THEN lo ELSE hi]

SliceLen(s) == s.hi - s.lo

\* class AudioSegment
AudioSegment(text, start_time, end_time, audio, rate) ==
    [text |-> text, start_time |-> start_time, end_time |-> end_time,
     audio_data |-> audio, sample_rate |-> rate, user_recording |-> None]

\* one iteration of the loop of _process_segments
ExtractSegment(segment_data, n, rate) ==
    LET start_sample == ToSample(segment_data.start, rate)
        end_sample   == ToSample(segment_data.end, rate)
    IN  AudioSegment(Strip(segment_data.text), segment_data.start,
                     segment_data.end, Slice(n, start_sample, end_sample), rate)

\* (faulty variant: the segments come out in reverse order)
ProcessSegments_Reversed(res, n, rate) ==
    [k \in 1..Len(res.segments) |->
        ExtractSegment(res.segments[Len(res.segments) + 1 - k], n, rate)]

\* WhisperWorker._process_segments

ProcessSegments(res, n, rate) ==
    [k \in 1..Len(res.segments) |-> ExtractSegment(res.segments[k], n, rate)]

\* (faulty variant: the index is taken one too far)
Progress_OffByOne(i, n) == ((i + 2) * 100) \div n

\* progress = int((i + 1) / len(segments) * 100).  For len(segments) < 50 the
\* double computation equals the exact floor (the first difference is i+1 = 29
\* of 50, where the double product is 28.999...).

Progress(i, n) == ((i + 1) * 100) \div n

----------------------------------------------------------------------------
(* Inputs of the worker: what the adapter may return *)

AllSpans ==
    {[start |-> s, end |-> e, text |-> t] :
        s \in TimeGrid, e \in TimeGrid, t \in Texts}

ValidSpans == {sp \in AllSpans : sp.start < sp.end}

\* spans in temporal order, as the adapter returns them
Ordered(q) == \A k \in 1..(Len(q) - 1) : q[k].end <= q[k + 1].start

SpanLists ==
    {q \in UNION {[1..n -> ValidSpans] : n \in 0..MaxSpans} : Ordered(q)}

Results == {[language |-> "en", segments |-> q] : q \in SpanLists}

Emit(log, sig, arg) == Append(log, [sig |-> sig, arg |-> arg])

----------------------------------------------------------------------------
(* WhisperWorker *)

WInit ==
    /\ w_pc = "load_model"
    /\ is_running = TRUE
    /\ result = None
    /\ audio_len = 0
    /\ segments = <<>>
    /\ w_i = 0
    /\ w_events = <<>>
    /\ cancel_observed = FALSE
    /\ w_raised = "none"

\* an exception raised at `stage` inside the try block of run()
Raise(stage) ==
    /\ w_pc' = "except"
    /\ w_raised' = stage

\* self.model = whisper.load_model(self.model_size)
W_LoadModel ==
    /\ UNCHANGED a_vars
    /\ w_pc = "load_model"
    /\ \/ w_pc' = "load_audio" /\ UNCHANGED w_raised
       \/ Raise("load_model")
    /\ UNCHANGED <<is_running, result, audio_len, segments, w_i, w_events,
                   cancel_observed>>

\* audio_data, sample_rate = librosa.load(self.audio_path, sr=16000)
W_LoadAudio ==
    /\ UNCHANGED a_vars
    /\ w_pc = "load_audio"
    /\ \/ \E n \in AudioLens :
            /\ audio_len' = n
            /\ w_pc' = "transcribe"
            /\ UNCHANGED w_raised
       \/ Raise("decode") /\ UNCHANGED audio_len
    /\ UNCHANGED <<is_running, result, segments, w_i, w_events, cancel_observed>>

\* result = self.model.transcribe(...)
W_Transcribe ==
    /\ UNCHANGED a_vars
    /\ w_pc = "transcribe"
    /\ \/ \E r \in Results :
            /\ result' = r
            /\ w_pc' = "emit_language"
            /\ UNCHANGED w_raised
       \/ Raise("adapter") /\ UNCHANGED result
    /\ UNCHANGED <<is_running, audio_len, segments, w_i, w_events,
                   cancel_observed>>

\* self.language_detected.emit(detected_language, language_confidence)
W_EmitLanguage ==
    /\ UNCHANGED a_vars
    /\ w_pc = "emit_language"
    /\ w_events' = Emit(w_events, "language_detected", result.language)
    /\ w_pc' = "process_segments"
    /\ UNCHANGED <<is_running, result, audio_len, segments, w_i,
                   cancel_observed, w_raised>>

\* segments = self._process_segments(result, audio_data, sample_rate)
\* It raises when the result lacks a key it reads (KeyError on 'segments',
\* 'start', 'end' or 'text'); the slicing itself never raises.
W_ProcessSegments ==
    /\ UNCHANGED a_vars
    /\ w_pc = "process_segments"
    /\ \/ /\ segments' = ProcessSegments(result, audio_len, SampleRate)
          /\ w_pc' = "loop"
          /\ UNCHANGED w_raised
       \/ Raise("extract") /\ UNCHANGED segments
    /\ UNCHANGED <<is_running, result, audio_len, w_i, w_events, cancel_observed>>

\* (faulty variant: the loop reads is_running = False and goes on emitting)
W_LoopCheck_NoBreak ==
    /\ UNCHANGED a_vars
    /\ w_pc = "loop"
    /\ IF w_i >= Len(segments)
         THEN w_pc' = "emit_finished" /\ UNCHANGED cancel_observed
         ELSE w_pc' = "emit_segment" /\ cancel_observed' = ~is_running
    /\ UNCHANGED <<is_running, result, audio_len, segments, w_i, w_events,
                   w_raised>>

\* for i, segment in enumerate(segments): if not self.is_running: break
W_LoopCheck ==
    /\ UNCHANGED a_vars
    /\ w_pc = "loop"
    /\ IF w_i >= Len(segments)
         THEN w_pc' = "emit_finished" /\ UNCHANGED cancel_observed
         ELSE IF ~is_running
                THEN w_pc' = "emit_finished" /\ cancel_observed' = TRUE
                ELSE w_pc' = "emit_segment" /\ UNCHANGED cancel_observed
    /\ UNCHANGED <<is_running, result, audio_len, segments, w_i, w_events,
                   w_raised>>

\* self.segment_completed.emit(segment)
W_EmitSegment ==
    /\ UNCHANGED a_vars
    /\ w_pc = "emit_segment"
    /\ w_events' = Emit(w_events, "segment_completed", segments[w_i + 1])
    /\ w_pc' = "emit_progress"
    /\ UNCHANGED <<is_running, result, audio_len, segments, w_i,
                   cancel_observed, w_raised>>

\* progress = ...; self.progress_updated.emit(progress); self.msleep(100)
W_EmitProgress ==
    /\ UNCHANGED a_vars
    /\ w_pc = "emit_progress"
    /\ w_events' = Emit(w_events, "progress_updated", Progress(w_i, Len(segments)))
    /\ w_i' = w_i + 1
    /\ w_pc' = "loop"
    /\ UNCHANGED <<is_running, result, audio_len, segments, cancel_observed,
                   w_raised>>

\* (faulty variant: nothing is emitted after the loop)
AfterLoop_Silent(log) == log

\* the statement after the loop: self.transcription_finished.emit()

AfterLoop(log) == Emit(log, "transcription_finished", None)

W_EmitFinished ==
    /\ UNCHANGED a_vars
    /\ w_pc = "emit_finished"
    /\ w_events' = AfterLoop(w_events)
    /\ w_pc' = "done"
    /\ UNCHANGED <<is_running, result, audio_len, segments, w_i,
                   cancel_observed, w_raised>>

\* (faulty variant: the handler falls through to the finished signal)
ExceptHandler_AlsoFinished(log, stage) ==
    Emit(Emit(log, "error_occurred", stage), "transcription_finished", None)

\* except Exception as e: self.error_occurred.emit(str(e))

ExceptHandler(log, stage) == Emit(log, "error_occurred", stage)

W_Except ==
    /\ UNCHANGED a_vars
    /\ w_pc = "except"
    /\ w_events' = ExceptHandler(w_events, w_raised)
    /\ w_pc' = "done"
    /\ UNCHANGED <<is_running, result, audio_len, segments, w_i,
                   cancel_observed, w_raised>>

\* WhisperWorker.stop(), called from the GUI thread at any time
W_Stop ==
    /\ UNCHANGED a_vars
    /\ is_running' = FALSE
    /\ UNCHANGED <<w_pc, result, audio_len, segments, w_i, w_events,
                   cancel_observed, w_raised>>

WorkerStep ==
    \/ W_LoadModel
    \/ W_LoadAudio
    \/ W_Transcribe
    \/ W_EmitLanguage
    \/ W_ProcessSegments
    \/ W_LoopCheck
    \/ W_EmitSegment
    \/ W_EmitProgress
    \/ W_EmitFinished
    \/ W_Except

WorkerNext == WorkerStep \/ W_Stop

----------------------------------------------------------------------------
(* AudioPlayer: the playback threads *)

PThreads == 1..MaxPlay

\* a thread object that has not been created yet
PUnborn ==
    [pc |-> "unborn", n |-> 0, i |-> 0, stream |-> "none", failed |-> FALSE,
     started |-> 0, finished |-> 0, errors |-> 0, stopped_early |-> FALSE,
     orig |-> EmptyBuffer, data |-> EmptyBuffer, written |-> <<>>,
     stop_requested |-> FALSE, cb |-> None, notified |-> None]

\* threading.Thread(target=self._play_audio_thread, args=(audio_data, ...))
\* orig is the buffer play_audio was called with, data the one it passes on
PNew(orig, data) ==
    [PUnborn EXCEPT !.pc = "set_playing", !.n = data.n, !.orig = orig,
                    !.data = data]

PCreated == Cardinality({t \in PThreads : p_th[t].pc # "unborn"})

\* Thread.is_alive()
PAlive(t) == t # 0 /\ p_th[t].pc \notin {"unborn", "done"}

PInit ==
    /\ is_playing = FALSE
    /\ playback_thread = 0
    /\ p_th = [t \in PThreads |-> PUnborn]
    /\ play_audio_raised = FALSE

\* self.is_playing = True
P_SetPlaying(t) ==
    /\ p_th[t].pc = "set_playing"
    /\ is_playing' = TRUE
    /\ p_th' = [p_th EXCEPT ![t].pc = "emit_started"]
    /\ UNCHANGED <<playback_thread, play_audio_raised, r_vars, m_vars, g_vars, w_vars>>

\* the thread goes on to open the stream without emitting playback_started
P_EmitStarted_Skipped(t) ==
    /\ p_th[t].pc = "emit_started"
    /\ p_th' = [p_th EXCEPT ![t].pc = "open"]
    /\ UNCHANGED <<is_playing, playback_thread, play_audio_raised, r_vars, m_vars, g_vars, w_vars>>

\* self.playback_started.emit()
P_EmitStarted(t) ==
    /\ p_th[t].pc = "emit_started"
    /\ p_th' = [p_th EXCEPT ![t].pc = "open", ![t].started = @ + 1]
    /\ UNCHANGED <<is_playing, playback_thread, play_audio_raised, r_vars, m_vars, g_vars, w_vars>>

\* stream = self.p.open(..., output=True, ...): returns a stream or raises
P_Open(t) ==
    /\ p_th[t].pc = "open"
    /\ \/ p_th' = [p_th EXCEPT ![t].pc = "loop", ![t].stream = "open"]
       \/ p_th' = [p_th EXCEPT ![t].pc = "except", ![t].failed = TRUE]
    /\ UNCHANGED <<is_playing, playback_thread, play_audio_raised, r_vars, m_vars, g_vars, w_vars>>

\* for i in range(0, len(audio_data), chunk_size): if not self.is_playing: break
P_LoopCheck(t) ==
    /\ p_th[t].pc = "loop"
    /\ IF p_th[t].i >= p_th[t].n
         THEN p_th' = [p_th EXCEPT ![t].pc = "close"]
         ELSE IF ~is_playing
                THEN p_th' = [p_th EXCEPT ![t].pc = "close"]
                ELSE p_th' = [p_th EXCEPT ![t].pc = "write"]
    /\ UNCHANGED <<is_playing, playback_thread, play_audio_raised, r_vars, m_vars, g_vars, w_vars>>

\* chunk = audio_data[i:i + chunk_size]; pad; stream.write(chunk.tobytes())
P_Write(t) ==
    /\ p_th[t].pc = "write"
    /\ \/ p_th' = [p_th EXCEPT ![t].pc = "loop", ![t].i = @ + ChunkSize,
                             ![t].written = Append(@, Chunk(p_th[t].data, p_th[t].i))]
       \/ p_th' = [p_th EXCEPT ![t].pc = "except", ![t].failed = TRUE]
    /\ UNCHANGED <<is_playing, playback_thread, play_audio_raised, r_vars, m_vars, g_vars, w_vars>>

\* stream.stop_stream(); stream.close()
P_Close(t) ==
    /\ p_th[t].pc = "close"
    /\ p_th' = [p_th EXCEPT ![t].pc = "finally", ![t].stream = "closed"]
    /\ UNCHANGED <<is_playing, playback_thread, play_audio_raised, r_vars, m_vars, g_vars, w_vars>>

\* except Exception as e: self.playback_error.emit(...)
\* (AudioManager._on_playback_error only prints)
P_Except(t) ==
    /\ p_th[t].pc = "except"
    /\ p_th' = [p_th EXCEPT ![t].pc = "finally", ![t].errors = @ + 1]
    /\ UNCHANGED <<is_playing, playback_thread, play_audio_raised, r_vars, m_vars, g_vars, w_vars>>

\* finally: self.is_playing = False
P_FinallyFlag(t) ==
    /\ p_th[t].pc = "finally"
    /\ is_playing' = FALSE
    /\ p_th' = [p_th EXCEPT ![t].pc = "emit_finished"]
    /\ UNCHANGED <<playback_thread, play_audio_raised, r_vars, m_vars, g_vars, w_vars>>

\* finally: self.playback_finished.emit(), queued to
\* AudioManager._on_playback_finished on the GUI thread
P_EmitFinished(t) ==
    /\ p_th[t].pc = "emit_finished"
    /\ p_th' = [p_th EXCEPT ![t].pc = "done", ![t].finished = @ + 1]
    /\ queue' = Append(queue, [sig |-> "playback_finished", th |-> t, data |-> <<>>])
    /\ UNCHANGED <<is_playing, playback_thread, play_audio_raised, r_vars, mpc, m_arg,
                   current_callback, user_recording, segment_audio, g_vars, w_vars>>

PlayThreadStep(t) ==
    \/ P_SetPlaying(t)
    \/ P_EmitStarted(t)
    \/ P_Open(t)
    \/ P_LoopCheck(t)
    \/ P_Write(t)
    \/ P_Close(t)
    \/ P_Except(t)
    \/ P_FinallyFlag(t)
    \/ P_EmitFinished(t)

\* the threads a stop request reaches, and those among them that it reaches
\* before they have written a chunk
PMarkStopped(th) ==
    [t \in PThreads |->
        IF th[t].pc \notin {"unborn", "done"}
          THEN [th[t] EXCEPT !.stop_requested = TRUE,
                             !.stopped_early = @ \/ th[t].i = 0]
          ELSE th[t]]

(* AudioPlayer: the calls made on the GUI thread *)

\* play_audio, first statement: if self.is_playing: self.stop_playback()
\* with stop_playback up to its join: self.is_playing = False;
\* if self.playback_thread and self.playback_thread.is_alive(): ...join(1.0)
M_PlayAudio ==
    /\ mpc = "play_audio"
    /\ IF is_playing
         THEN /\ is_playing' = FALSE
              /\ p_th' = PMarkStopped(p_th)
              /\ mpc' = IF PAlive(playback_thread) THEN "play_join" ELSE "play_start"
         ELSE /\ mpc' = "play_start"
              /\ UNCHANGED <<is_playing, p_th>>
    /\ UNCHANGED <<playback_thread, play_audio_raised, r_vars, m_arg, current_callback, queue,
                   user_recording, segment_audio, g_vars, w_vars>>

\* play_audio, the try block: the buffer is normalised, then the thread is
\* created and started; np.max of a zero-size array raises, and the except
\* branch emits playback_error (AudioManager._on_playback_error only prints)
M_PlayStart ==
    /\ mpc = "play_start"
    /\ IF m_arg.n = 0
         THEN /\ play_audio_raised' = TRUE
              /\ UNCHANGED <<p_th, playback_thread>>
         ELSE LET t == PCreated + 1
              IN  /\ p_th' = [p_th EXCEPT ![t] =
                                 [PNew(m_arg, Normalize(m_arg))
                                     EXCEPT !.cb = current_callback]]
                  /\ playback_thread' = t
                  /\ UNCHANGED play_audio_raised
    /\ mpc' = "idle"
    \* the call returns: its argument is no longer held
    /\ m_arg' = EmptyBuffer
    /\ UNCHANGED <<is_playing, r_vars, current_callback, queue,
                   user_recording, segment_audio, g_vars, w_vars>>

\* stop_playback(), up to its join
StopPlayback ==
    /\ is_playing' = FALSE
    /\ p_th' = PMarkStopped(p_th)
    /\ mpc' = IF PAlive(playback_thread) THEN "stop_join" ELSE "idle"
    /\ UNCHANGED <<playback_thread, play_audio_raised, r_vars, m_arg, current_callback, queue,
                   user_recording, segment_audio, w_vars>>

\* AudioManager.play_audio(audio_data, sample_rate, callback), called directly
Api_PlayAudio(n, cb) ==
    /\ mpc = "idle"
    /\ PCreated < MaxPlay
    /\ current_callback' = cb
    /\ m_arg' = n
    /\ mpc' = "play_audio"
    /\ UNCHANGED <<p_vars, r_vars, queue, user_recording, segment_audio,
                   g_vars, w_vars>>

\* AudioManager.stop_playback(), called directly
Api_StopPlayback ==
    /\ mpc = "idle"
    /\ StopPlayback
    /\ UNCHANGED g_vars
----------------------------------------------------------------------------
(* AudioRecorder: the recording threads *)

RThreads == 1..MaxRec

RUnborn ==
    [pc |-> "unborn", stream |-> "none", failed |-> FALSE, got_chunk |-> FALSE,
     read_failed |-> FALSE,
     empty_at_loop_end |-> FALSE, array |-> <<>>, delivered |-> <<>>,
     started |-> 0, finished |-> 0, errors |-> 0, stopped_early |-> FALSE,
     cb |-> None, notified |-> None]

\* threading.Thread(target=self._recording_thread)
RNew == [RUnborn EXCEPT !.pc = "set_recording"]

RCreated == Cardinality({t \in RThreads : r_th[t].pc # "unborn"})

RAlive(t) == t # 0 /\ r_th[t].pc \notin {"unborn", "done"}

RInit ==
    /\ is_recording = FALSE
    /\ recording_thread = 0
    /\ audio_data = <<>>
    /\ dropped = FALSE
    /\ r_th = [t \in RThreads |-> RUnborn]

\* self.is_recording = True
R_SetRecording(t) ==
    /\ r_th[t].pc = "set_recording"
    /\ is_recording' = TRUE
    /\ r_th' = [r_th EXCEPT ![t].pc = "emit_started"]
    /\ UNCHANGED <<recording_thread, audio_data, dropped, p_vars, m_vars,
                   g_vars, w_vars>>

\* self.recording_started.emit()
R_EmitStarted(t) ==
    /\ r_th[t].pc = "emit_started"
    /\ r_th' = [r_th EXCEPT ![t].pc = "open", ![t].started = @ + 1]
    /\ UNCHANGED <<is_recording, recording_thread, audio_data, dropped, p_vars,
                   m_vars, g_vars, w_vars>>

\* stream = self.p.open(..., input=True, ...): returns a stream or raises
R_Open(t) ==
    /\ r_th[t].pc = "open"
    /\ \/ r_th' = [r_th EXCEPT ![t].pc = "loop", ![t].stream = "open"]
       \/ r_th' = [r_th EXCEPT ![t].pc = "except", ![t].failed = TRUE]
    /\ UNCHANGED <<is_recording, recording_thread, audio_data, dropped, p_vars,
                   m_vars, g_vars, w_vars>>

\* while self.is_recording:
R_LoopCheck(t) ==
    /\ r_th[t].pc = "loop"
    /\ IF is_recording
         THEN r_th' = [r_th EXCEPT ![t].pc = "read"]
         ELSE r_th' = [r_th EXCEPT ![t].pc = "close",
                                   ![t].empty_at_loop_end = (audio_data = <<>>)]
    /\ UNCHANGED <<is_recording, recording_thread, audio_data, dropped, p_vars,
                   m_vars, g_vars, w_vars>>

\* (variant: the failed read is skipped and the loop goes on)
ReadFailed_Continue(th, t, acc) ==
    [th EXCEPT ![t].pc = "loop", ![t].read_failed = TRUE]

\* what a failed stream.read does to the loop: print(...); break

ReadFailed(th, t, acc) ==
    [th EXCEPT ![t].pc = "close", ![t].read_failed = TRUE,
               ![t].empty_at_loop_end = (acc = <<>>)]

\* data = stream.read(1024, ...); self.audio_data.extend(audio_chunk)
\* A chunk is recorded as the id of the thread that read it.
R_Read(t) ==
    /\ r_th[t].pc = "read"
    /\ \/ /\ r_th' = [r_th EXCEPT ![t].pc = "loop", ![t].got_chunk = TRUE]
          /\ IF Len(audio_data) < MaxAcc
               THEN audio_data' = Append(audio_data, t) /\ UNCHANGED dropped
               ELSE dropped' = TRUE /\ UNCHANGED audio_data
       \/ /\ r_th' = ReadFailed(r_th, t, audio_data)
          /\ UNCHANGED <<audio_data, dropped>>
    /\ UNCHANGED <<is_recording, recording_thread, p_vars, m_vars, g_vars, w_vars>>

\* stream.stop_stream(); stream.close()
R_Close(t) ==
    /\ r_th[t].pc = "close"
    /\ r_th' = [r_th EXCEPT ![t].pc = "check_data", ![t].stream = "closed"]
    /\ UNCHANGED <<is_recording, recording_thread, audio_data, dropped, p_vars,
                   m_vars, g_vars, w_vars>>

\* if self.audio_data: ... else: ...
R_CheckData(t) ==
    /\ r_th[t].pc = "check_data"
    /\ r_th' = [r_th EXCEPT ![t].pc =
                    IF audio_data # <<>> THEN "materialize" ELSE "emit_empty"]
    /\ UNCHANGED <<is_recording, recording_thread, audio_data, dropped, p_vars,
                   m_vars, g_vars, w_vars>>

\* audio_array = np.array(self.audio_data, dtype=np.float32)
R_Materialize(t) ==
    /\ r_th[t].pc = "materialize"
    /\ r_th' = [r_th EXCEPT ![t].pc = "emit_finished", ![t].array = audio_data]
    /\ UNCHANGED <<is_recording, recording_thread, audio_data, dropped, p_vars,
                   m_vars, g_vars, w_vars>>

\* self.recording_finished.emit(audio_array, self.sample_rate), queued to
\* AudioManager._on_recording_finished on the GUI thread
R_EmitFinished(t) ==
    /\ r_th[t].pc = "emit_finished"
    /\ r_th' = [r_th EXCEPT ![t].pc = "finally", ![t].finished = @ + 1,
                            ![t].delivered = r_th[t].array]
    /\ queue' = Append(queue, [sig |-> "recording_finished", th |-> t,
                               data |-> r_th[t].array])
    /\ UNCHANGED <<is_recording, recording_thread, audio_data, dropped, p_vars,
                   mpc, m_arg, current_callback, user_recording, segment_audio,
                   g_vars, w_vars>>

\* else: self.recording_error.emit("empty recording")
\* (AudioManager._on_recording_error only prints)
R_EmitEmpty(t) ==
    /\ r_th[t].pc = "emit_empty"
    /\ r_th' = [r_th EXCEPT ![t].pc = "finally", ![t].errors = @ + 1]
    /\ UNCHANGED <<is_recording, recording_thread, audio_data, dropped, p_vars,
                   m_vars, g_vars, w_vars>>

\* except Exception as e: self.recording_error.emit(...)
R_Except(t) ==
    /\ r_th[t].pc = "except"
    /\ r_th' = [r_th EXCEPT ![t].pc = "finally", ![t].errors = @ + 1]
    /\ UNCHANGED <<is_recording, recording_thread, audio_data, dropped, p_vars,
                   m_vars, g_vars, w_vars>>

\* finally: self.is_recording = False
R_Finally(t) ==
    /\ r_th[t].pc = "finally"
    /\ is_recording' = FALSE
    /\ r_th' = [r_th EXCEPT ![t].pc = "done"]
    /\ UNCHANGED <<recording_thread, audio_data, dropped, p_vars, m_vars,
                   g_vars, w_vars>>

RecThreadStep(t) ==
    \/ R_SetRecording(t)
    \/ R_EmitStarted(t)
    \/ R_Open(t)
    \/ R_LoopCheck(t)
    \/ R_Read(t)
    \/ R_Close(t)
    \/ R_CheckData(t)
    \/ R_Materialize(t)
    \/ R_EmitFinished(t)
    \/ R_EmitEmpty(t)
    \/ R_Except(t)
    \/ R_Finally(t)

\* the threads a stop request reaches before they have read a chunk
RMarkStopped(th) ==
    [t \in RThreads |->
        IF th[t].pc \notin {"unborn", "done"} /\ ~th[t].got_chunk
          THEN [th[t] EXCEPT !.stopped_early = TRUE]
          ELSE th[t]]

(* AudioRecorder: the calls made on the GUI thread *)

\* start_recording: if self.is_recording: return; self.audio_data = []
M_StartRecording ==
    /\ mpc = "start_recording"
    /\ IF is_recording
         THEN mpc' = "idle" /\ UNCHANGED audio_data
         ELSE mpc' = "rec_start" /\ audio_data' = <<>>
    /\ UNCHANGED <<is_recording, recording_thread, dropped, r_th, p_vars, m_arg,
                   current_callback, queue, user_recording, segment_audio,
                   g_vars, w_vars>>

\* start_recording: the thread is created and started
M_RecStart ==
    /\ mpc = "rec_start"
    /\ LET t == RCreated + 1
       IN  /\ r_th' = [r_th EXCEPT ![t] = [RNew EXCEPT !.cb = current_callback]]
           /\ recording_thread' = t
    /\ mpc' = "idle"
    /\ UNCHANGED <<is_recording, audio_data, dropped, p_vars, m_arg,
                   current_callback, queue, user_recording, segment_audio,
                   g_vars, w_vars>>

\* stop_recording(), up to its join
StopRecording ==
    /\ is_recording' = FALSE
    /\ r_th' = RMarkStopped(r_th)
    /\ mpc' = IF RAlive(recording_thread) THEN "rec_join" ELSE "idle"
    /\ UNCHANGED <<recording_thread, audio_data, dropped, p_vars, m_arg,
                   current_callback, queue, user_recording, segment_audio, w_vars>>

\* AudioManager.start_recording(callback), called directly
Api_StartRecording(cb) ==
    /\ mpc = "idle"
    /\ RCreated < MaxRec
    /\ current_callback' = cb
    /\ mpc' = "start_recording"
    /\ UNCHANGED <<p_vars, r_vars, m_arg, queue, user_recording, segment_audio,
                   g_vars, w_vars>>

\* AudioManager.stop_recording(), called directly
Api_StopRecording ==
    /\ mpc = "idle"
    /\ StopRecording
    /\ UNCHANGED g_vars
----------------------------------------------------------------------------
(* The GUI thread: joins, queued slots, and the widget's handlers *)

NoRecording == [set |-> FALSE, data |-> <<>>]

JoinTarget ==
    IF mpc = "rec_join" THEN r_th[recording_thread].pc
                        ELSE p_th[playback_thread].pc

AfterJoin == IF mpc = "play_join" THEN "play_start" ELSE "idle"

\* Thread.join(timeout=...) returns because the thread has ended
M_JoinReturn ==
    /\ mpc \in {"play_join", "stop_join", "rec_join"}
    /\ JoinTarget = "done"
    /\ mpc' = AfterJoin
    /\ UNCHANGED <<p_vars, r_vars, m_arg, current_callback, queue,
                   user_recording, segment_audio, g_vars, w_vars>>

\* Thread.join(timeout=...) returns because the timeout has elapsed
M_JoinTimeout ==
    /\ mpc \in {"play_join", "stop_join", "rec_join"}
    /\ JoinTarget # "done"
    /\ mpc' = AfterJoin
    /\ UNCHANGED <<p_vars, r_vars, m_arg, current_callback, queue,
                   user_recording, segment_audio, g_vars, w_vars>>

\* AudioSegmentWidget._on_recording_finished: self.segment.user_recording = ...
OnRecordingFinished(data) == [set |-> TRUE, data |-> data]

\* The event loop delivers the oldest queued signal to its slot:
\* AudioManager._on_playback_finished / _on_recording_finished call
\* self.current_callback if it is set. cb is the callback a session was
\* started with, notified the callback called on its completion.
M_Dispatch ==
    /\ mpc = "idle"
    /\ queue # <<>>
    /\ queue' = Tail(queue)
    /\ IF /\ Head(queue).sig = "recording_finished"
          /\ current_callback = "_on_recording_finished"
         THEN user_recording' = OnRecordingFinished(Head(queue).data)
         ELSE UNCHANGED user_recording
    /\ IF Head(queue).sig = "playback_finished"
         THEN /\ p_th' = [p_th EXCEPT ![Head(queue).th].notified = current_callback]
              /\ UNCHANGED r_th
         ELSE /\ r_th' = [r_th EXCEPT ![Head(queue).th].notified = current_callback]
              /\ UNCHANGED p_th
    /\ UNCHANGED <<is_playing, playback_thread, play_audio_raised, is_recording,
                   recording_thread, audio_data, dropped, mpc, m_arg,
                   current_callback, segment_audio, g_vars, w_vars>>

\* the widget may still start a thread within the bounds of the model
MayStart == PCreated + RCreated < MaxSessions

\* AudioSegmentWidget._play_original
Ui_PlayOriginal ==
    /\ mpc = "idle"
    /\ \/ /\ ~is_playing
          /\ PCreated < MaxPlay /\ MayStart
          /\ current_callback' = "_stop_playing"
          /\ m_arg' = segment_audio
          /\ mpc' = "play_audio"
          /\ UNCHANGED <<p_vars, r_vars, queue, user_recording, segment_audio,
                         w_vars>>
       \/ /\ is_playing
          /\ StopPlayback
    /\ UNCHANGED g_vars

\* no chunk of the recording has been captured yet
NoChunkCaptured == \A t \in RThreads : ~r_th[t].got_chunk

\* AudioSegmentWidget._toggle_recording
Ui_ToggleRecording ==
    /\ mpc = "idle"
    /\ \/ /\ ~is_recording
          /\ RCreated < MaxRec /\ MayStart
          /\ current_callback' = "_on_recording_finished"
          /\ mpc' = "start_recording"
          /\ UNCHANGED <<p_vars, r_vars, m_arg, queue, user_recording,
                         segment_audio, w_vars>>
       \/ /\ is_recording
          /\ StopRecording
    /\ n_toggles' = Min(n_toggles + 1, 2)
    /\ second_toggle_early' =
          IF n_toggles = 1
            THEN RAlive(1) /\ NoChunkCaptured
            ELSE second_toggle_early

\* AudioSegmentWidget._play_user_recording
Ui_PlayUserRecording ==
    /\ mpc = "idle"
    /\ user_recording.set
    /\ \/ /\ ~is_playing
          /\ PCreated < MaxPlay /\ MayStart
          /\ current_callback' = "_stop_user_playing"
          /\ m_arg' = RecordedBuffer(Len(user_recording.data))
          /\ mpc' = "play_audio"
          /\ UNCHANGED <<p_vars, r_vars, queue, user_recording, segment_audio,
                         w_vars>>
       \/ /\ is_playing
          /\ StopPlayback
    /\ UNCHANGED g_vars

----------------------------------------------------------------------------
(* Specifications *)

AInit ==
    /\ PInit
    /\ RInit
    /\ mpc = "idle"
    /\ m_arg = EmptyBuffer
    /\ current_callback = None
    /\ queue = <<>>
    /\ user_recording = NoRecording
    /\ n_toggles = 0
    /\ second_toggle_early = FALSE

\* one AudioSegmentWidget on one segment
Init == WInit /\ AInit /\ segment_audio \in Buffers

\* an AudioManager driven directly, and a worker
ApiInit == WInit /\ AInit /\ segment_audio = EmptyBuffer

GuiStep ==
    \/ M_PlayAudio
    \/ M_PlayStart
    \/ M_StartRecording
    \/ M_RecStart
    \/ M_JoinReturn
    \/ M_JoinTimeout
    \/ M_Dispatch

Next ==
    \/ Ui_PlayOriginal
    \/ Ui_ToggleRecording
    \/ Ui_PlayUserRecording
    \/ GuiStep
    \/ \E t \in PThreads : PlayThreadStep(t)
    \/ \E t \in RThreads : RecThreadStep(t)

Spec == Init /\ [][Next]_vars

PlayerNext ==
    \/ \E n \in Buffers : Api_PlayAudio(n, "_stop_playing")
    \/ Api_StopPlayback
    \/ M_PlayAudio
    \/ M_PlayStart
    \/ M_JoinReturn
    \/ M_JoinTimeout
    \/ M_Dispatch
    \/ \E t \in PThreads : PlayThreadStep(t)

PlayerSpec == ApiInit /\ [][PlayerNext]_vars

\* an AudioManager that is only ever asked to play one segment's audio
SegmentPlayerNext ==
    \/ Api_PlayAudio(segment_audio, "_stop_playing")
    \/ Api_StopPlayback
    \/ M_PlayAudio
    \/ M_PlayStart
    \/ M_JoinReturn
    \/ M_JoinTimeout
    \/ M_Dispatch
    \/ \E t \in PThreads : PlayThreadStep(t)

SegmentPlayerSpec == Init /\ [][SegmentPlayerNext]_vars

RecorderNext ==
    \/ Api_StartRecording("_on_recording_finished")
    \/ Api_StopRecording
    \/ M_StartRecording
    \/ M_RecStart
    \/ M_JoinReturn
    \/ M_JoinTimeout
    \/ M_Dispatch
    \/ \E t \in RThreads : RecThreadStep(t)

RecorderSpec == ApiInit /\ [][RecorderNext]_vars

\* Every started thread keeps running, and a call on the GUI thread runs to
\* its end; nothing obliges the caller to make a further call.
FairRecorderSpec ==
    /\ RecorderSpec
    /\ \A t \in RThreads : WF_vars(RecThreadStep(t))
    /\ WF_vars(GuiStep)

WorkerSpec == ApiInit /\ [][WorkerNext]_vars

----------------------------------------------------------------------------
(* Properties of the worker *)

Sigs(log, s) == SelectSeq(log, LAMBDA e : e.sig = s)

Count(log, s) == Len(Sigs(log, s))

\* floor and round-half-even of the rational t * rate / TimeUnit
Trunc(t, rate) == (t * rate) \div TimeUnit

Round(t, rate) ==
    LET q == (t * rate) \div TimeUnit
        r == (t * rate) % TimeUnit
    IN  IF 2 * r > TimeUnit \/ (2 * r = TimeUnit /\ q % 2 = 1) THEN q + 1 ELSE q

\* the span ends within the waveform: end <= len(audio_data) / rate
WithinWaveform(sp) == sp.start < sp.end /\ sp.end * SampleRate <= audio_len * TimeUnit

SegmentEvents == Sigs(w_events, "segment_completed")

ProgressEvents == Sigs(w_events, "progress_updated")

\* C4 (as claimed): once the emit loop has observed stop(), the run never emits
\* transcription_finished.
C4_CancelledNeverFinishes ==
    cancel_observed => Count(w_events, "transcription_finished") = 0

\* the run that refutes it: the loop broke on is_running = False with spans
\* left over, and the run has ended
C4_CancelledRunEnded ==
    /\ cancel_observed
    /\ w_pc = "done"
    /\ Len(SegmentEvents) < Len(segments)

\* C5: language_detected is emitted once, after the adapter has returned and
\* before every
\* segment_completed; the k-th segment_completed carries the k-th span of the
\* adapter; progress values never decrease and never exceed 100.
C5_EventOrder ==
    /\ Count(w_events, "language_detected") <= 1
    /\ w_pc \in {"process_segments", "loop", "emit_segment", "emit_progress",
                 "emit_finished"} => Count(w_events, "language_detected") = 1
    /\ \A k \in 1..Len(w_events) :
          w_events[k].sig = "segment_completed" =>
              \E j \in 1..(k - 1) : w_events[j].sig = "language_detected"
    /\ SegmentEvents # <<>> =>
          /\ Len(SegmentEvents) <= Len(result.segments)
          /\ \A k \in 1..Len(SegmentEvents) :
                /\ SegmentEvents[k].arg.start_time = result.segments[k].start
                /\ SegmentEvents[k].arg.end_time = result.segments[k].end
                /\ SegmentEvents[k].arg.text = Strip(result.segments[k].text)
    /\ \A k \in 1..Len(ProgressEvents) :
          /\ ProgressEvents[k].arg <= 100
          /\ k > 1 => ProgressEvents[k - 1].arg <= ProgressEvents[k].arg

C5_TwoSegmentsEmitted ==
    /\ w_pc = "done"
    /\ Len(SegmentEvents) = 2
    /\ Len(ProgressEvents) = 2
    /\ ProgressEvents[1].arg < ProgressEvents[2].arg

C9_ScenarioExtracted ==
    /\ Len(segments) = 2
    /\ result.segments[1].start = 0 /\ result.segments[1].end = TimeUnit
    /\ result.segments[2].start = TimeUnit /\ 2 * result.segments[2].end = 5 * TimeUnit
    /\ Len(SegmentEvents) = 2

C10_FailedRun ==
    /\ \A k \in 1..Len(w_events) :
          w_events[k].sig = "error_occurred" => k = Len(w_events)
    /\ w_raised # "none" =>
          /\ Count(w_events, "transcription_finished") = 0
          /\ Count(w_events, "segment_completed") = 0
          /\ Count(w_events, "progress_updated") = 0
          /\ w_pc = "done" => Count(w_events, "error_occurred") = 1
    /\ w_raised = "none" => Count(w_events, "error_occurred") = 0

C10_ExtractionFailed ==
    /\ w_pc = "done"
    /\ w_raised = "extract"
    /\ Count(w_events, "language_detected") = 1

\* C15 (as claimed, for WhisperWorker.stop): a stop() call made when no run
\* is active changes no state.
C15_StopWithoutRunIsNoOp ==
    [][w_pc = "done" => is_running' = is_running]_vars

\* a run has ended normally, every segment emitted, and is_running is False:
\* a stop() that no loop test has seen has cleared it
C15_FlagClearedUnseen ==
    /\ w_pc = "done"
    /\ w_raised = "none"
    /\ ~cancel_observed
    /\ Len(segments) = 2
    /\ Len(SegmentEvents) = 2
    /\ ~is_running

\* C21: once the loop's test has read is_running = False, no step of the run
\* emits a segment_completed or a progress_updated.
C21_NothingEmittedAfterCancel ==
    [][cancel_observed =>
          /\ Sigs(w_events', "segment_completed") = SegmentEvents
          /\ Sigs(w_events', "progress_updated") = ProgressEvents]_vars

\* the loop emitted the first of two segments with its progress value, then
\* read is_running = False, and the run has ended with nothing more of either
C21_CancelledAfterFirstSegment ==
    /\ cancel_observed
    /\ w_pc = "done"
    /\ Len(segments) = 2
    /\ Len(SegmentEvents) = 1
    /\ Len(ProgressEvents) = 1
    /\ w_events[Len(w_events)].sig = "transcription_finished"

\* the run has ended without a failure and without the loop seeing a cancel
NormalRun ==
    /\ w_pc = "done"
    /\ w_raised = "none"
    /\ ~cancel_observed

NonDecreasing(q) == \A k \in 2..Len(q) : q[k - 1].arg <= q[k].arg

\* transcription_finished is the last event of the log and is emitted once
FinishedLast ==
    /\ Count(w_events, "transcription_finished") = 1
    /\ w_events[Len(w_events)].sig = "transcription_finished"

\* C17 (as claimed): on every normal run the progress values are
\* non-decreasing, their last value is 100, and they precede
\* transcription_finished.
C17_ProgressEndsAt100 ==
    NormalRun =>
        /\ NonDecreasing(ProgressEvents)
        /\ ProgressEvents # <<>>
        /\ ProgressEvents[Len(ProgressEvents)].arg = 100
        /\ FinishedLast

\* C17 (amended): on a normal run over at least one segment there is one
\* progress value per segment, the values are non-decreasing, the last one is
\* 100 and transcription_finished follows them; on a normal run over no
\* segment no progress value is emitted at all.
C17_ProgressEndsAt100IfAnySegment ==
    NormalRun =>
        /\ NonDecreasing(ProgressEvents)
        /\ Len(ProgressEvents) = Len(segments)
        /\ segments # <<>> => ProgressEvents[Len(ProgressEvents)].arg = 100
        /\ FinishedLast

\* a normal run over two segments has reported 50 and then 100
C17_TwoSegmentRunFinished ==
    /\ NormalRun
    /\ Len(segments) = 2
    /\ ProgressEvents[1].arg = 50
    /\ ProgressEvents[2].arg = 100

----------------------------------------------------------------------------
(* Properties of the player, the recorder and the widget *)

\* terminal events (finished or error) a session has emitted
PTerminal(t) == p_th[t].finished + p_th[t].errors

RTerminal(t) == r_th[t].finished + r_th[t].errors

\* C1 (as claimed): a playback thread emits playback_started or writes a chunk
\* only after every earlier playback session has emitted its one
\* playback_finished and released its stream.
C1_OneSessionAtATime ==
    \A a \in PThreads : \A b \in PThreads :
        (a < b /\ (p_th[b].started > 0 \/ p_th[b].i > 0)) =>
            (p_th[a].finished = 1 /\ p_th[a].stream # "open")

\* two playback threads are inside their write loops, streams open, at once
C1_TwoSessionsWriting ==
    /\ p_th[1].pc = "write" /\ p_th[1].stream = "open"
    /\ p_th[2].pc = "write" /\ p_th[2].stream = "open"

\* C2 (as claimed): a session whose device failed emits playback_error once
\* and never playback_finished; a session without a failure emits
\* playback_finished once and never playback_error.
C2_ErrorInsteadOfFinished ==
    \A t \in PThreads :
        /\ p_th[t].failed => p_th[t].finished = 0
        /\ ~p_th[t].failed => p_th[t].errors = 0
        /\ p_th[t].pc = "done" =>
              IF p_th[t].failed
                THEN p_th[t].errors = 1 /\ p_th[t].finished = 0
                ELSE p_th[t].errors = 0 /\ p_th[t].finished = 1

\* a session whose device failed has ended with both events emitted
C2_FailedSessionEnded ==
    \E t \in PThreads :
        /\ p_th[t].pc = "done"
        /\ p_th[t].failed
        /\ p_th[t].errors = 1
        /\ p_th[t].finished = 1

\* C3 (as claimed): a session that a stop call reached before its first chunk
\* eventually has emitted exactly one terminal event, and no session ever
\* emits more than one.
C3_StoppedEarlyTerminates ==
    /\ \A t \in RThreads :
          /\ r_th[t].stopped_early ~> (RTerminal(t) = 1)
          /\ [](RTerminal(t) <= 1)
    /\ \A t \in PThreads :
          /\ p_th[t].stopped_early ~> (PTerminal(t) = 1)
          /\ [](PTerminal(t) <= 1)

\* the stop request is lost: the thread it reached is reading chunks with
\* is_recording set again, and the caller is back in the event loop
C3_StopLost ==
    \E t \in RThreads :
        /\ r_th[t].stopped_early
        /\ r_th[t].pc = "read"
        /\ r_th[t].got_chunk
        /\ is_recording
        /\ mpc = "idle"
        /\ RTerminal(t) = 0

\* C6 (as claimed): when the second toggle arrives before any chunk has been
\* captured, it starts no second recording thread and the session does not
\* end in recording_finished.
C6_SecondToggleStops ==
    second_toggle_early => (RCreated <= 1 /\ r_th[1].finished = 0)

\* the second toggle started a second recording thread next to the first
C6_TwoRecordingThreads ==
    /\ second_toggle_early
    /\ RAlive(1)
    /\ RAlive(2)

\* C7 (as claimed): recording_finished never carries an empty buffer, and a
\* session whose accumulator is empty when its read loop ends does not emit
\* recording_finished.
C7_NoEmptyFinished ==
    \A t \in RThreads :
        /\ r_th[t].finished > 0 => r_th[t].delivered # <<>>
        /\ r_th[t].empty_at_loop_end => r_th[t].finished = 0

\* recording_finished has been emitted with an empty buffer
C7_EmptyDelivered ==
    \E t \in RThreads : r_th[t].finished = 1 /\ r_th[t].delivered = <<>>

\* C8 (as claimed): within one widget at most one playback or recording is in
\* flight at any time.
C8_OneActionInFlight ==
    Cardinality({t \in PThreads : PAlive(t)})
        + Cardinality({t \in RThreads : RAlive(t)}) <= 1

\* a recording and a playback of the same widget both have their streams open
C8_RecordingWhilePlaying ==
    \E a \in PThreads : \E b \in RThreads :
        /\ p_th[a].stream = "open" /\ p_th[a].pc = "write"
        /\ r_th[b].stream = "open" /\ r_th[b].pc = "read"

\* C11 (as claimed): the step in which a device read fails leaves the thread
\* in its read loop (the chunk is skipped and the loop test is taken again).
C11_FailedReadSkipped ==
    [][\A t \in RThreads :
          (~r_th[t].read_failed /\ r_th'[t].read_failed) => r_th'[t].pc = "loop"]_vars

\* a read failed while recording was still requested, and the session ended
\* with the one chunk it had captured before the failure
C11_LoopEndedByFailedRead ==
    \E t \in RThreads :
        /\ r_th[t].read_failed
        /\ ~r_th[t].stopped_early
        /\ r_th[t].pc = "done"
        /\ r_th[t].finished = 1
        /\ Len(r_th[t].delivered) = 1

\* C12 (as claimed): a session that has emitted a terminal event, or has
\* ended, holds no open stream.
C12_StreamsClosed ==
    /\ \A t \in PThreads :
          (PTerminal(t) > 0 \/ p_th[t].pc = "done") => p_th[t].stream # "open"
    /\ \A t \in RThreads :
          (RTerminal(t) > 0 \/ r_th[t].pc = "done") => r_th[t].stream # "open"

\* a playback session has ended after a failed write and its stream was
\* never closed
C12_StreamLeaked ==
    \E t \in PThreads :
        /\ p_th[t].pc = "done"
        /\ p_th[t].failed
        /\ p_th[t].stream = "open"

\* C13 (as claimed): at most one recording thread is in its read loop.
C13_OneReadLoop ==
    Cardinality({t \in RThreads : r_th[t].pc \in {"loop", "read"}}) <= 1

\* two recording threads are blocked in stream.read at once
C13_TwoThreadsReading ==
    /\ r_th[1].pc = "read" /\ r_th[1].stream = "open"
    /\ r_th[2].pc = "read" /\ r_th[2].stream = "open"
    /\ mpc = "idle"

\* C18 (as claimed): an attempt whose input device fails to open emits no
\* recording_started.
C18_NoSessionOnOpenFailure ==
    \A t \in RThreads : r_th[t].failed => r_th[t].started = 0

\* the open failed after recording_started was emitted, and is_recording was
\* still set when recording_error was emitted
C18_StartedThenOpenFailed ==
    \E t \in RThreads :
        /\ r_th[t].failed
        /\ r_th[t].started = 1
        /\ r_th[t].errors = 1
        /\ is_recording

\* the samples thread t has written to the device, at their buffer positions
\* (the samples not listed are 0.0)
WrittenSamples(t) ==
    UNION {{[s EXCEPT !.pos = @ + p_th[t].written[k].off] :
               s \in p_th[t].written[k].samples} :
           k \in 1..Len(p_th[t].written)}

\* thread t has written every chunk of its buffer
WroteAll(t) == Len(p_th[t].written) * ChunkSize >= p_th[t].orig.n

\* C19: the samples written are those of the buffer given to play_audio, each
\* divided by the buffer's peak when that peak exceeds 1.0 and unchanged
\* otherwise; a buffer of peak above 1.0 that is written completely is
\* written with peak 1.0.
C19_WrittenNormalized ==
    \A t \in PThreads :
        LET o    == p_th[t].orig
            peak == PeakNum(o)
            W    == WrittenSamples(t)
        IN  /\ {w.pos : w \in W} =
                   {x.pos : x \in {y \in o.samples :
                                      y.pos < Len(p_th[t].written) * ChunkSize}}
            /\ \A w \in W : \A x \in o.samples :
                  x.pos = w.pos =>
                      IF peak > AmpUnit
                        THEN w.num * x.den * peak = x.num * AmpUnit * w.den
                        ELSE w = x
            /\ (peak > AmpUnit /\ WroteAll(t)) =>
                  /\ \A w \in W : Abs(w.num) <= w.den
                  /\ \E w \in W : Abs(w.num) = w.den

\* a buffer of peak 1.5 has been written completely by a session that ended
\* without a failure
C19_LoudBufferWritten ==
    \E t \in PThreads :
        /\ PeakNum(p_th[t].orig) > AmpUnit
        /\ WroteAll(t)
        /\ ~p_th[t].failed
        /\ p_th[t].pc = "done"

\* C14: a playback thread emits playback_started at most once, has emitted
\* it once it is past that statement, and has emitted it before it opens
\* the stream and writes a chunk.
C14_StartedOnceBeforeFirstChunk ==
    \A t \in PThreads :
        /\ p_th[t].started <= 1
        /\ p_th[t].pc \notin {"unborn", "set_playing", "emit_started"} =>
              p_th[t].started = 1
        /\ (p_th[t].written # <<>> \/ p_th[t].stream # "none") =>
              p_th[t].started = 1

\* two sessions have each written their first chunk after their one
\* playback_started
C14_TwoSessionsStarted ==
    \A t \in PThreads :
        /\ p_th[t].started = 1
        /\ Len(p_th[t].written) >= 1

\* C20 (as claimed): a playback thread that a stop request reached before it
\* had completed a write writes at most one chunk (the model's buffers have
\* two chunks, so "one further chunk" and "one chunk" coincide for it).
C20_AtMostOneChunkAfterStop ==
    \A t \in PThreads : p_th[t].stopped_early => Len(p_th[t].written) <= 1

\* the only session was stopped during its start-up and still wrote both
\* chunks of its buffer
C20_StopIgnored ==
    /\ PCreated = 1
    /\ p_th[1].stopped_early
    /\ Len(p_th[1].written) = 2
    /\ p_th[1].pc = "done"

\* C16 (as claimed): when the event loop delivers the recording_finished
\* signal of a recording that captured a buffer, that buffer becomes the
\* segment's user_recording.
C16_FinishedRecordingStored ==
    [][(/\ mpc = "idle"
        /\ queue # <<>>
        /\ queue' = Tail(queue)
        /\ Head(queue).sig = "recording_finished"
        /\ Head(queue).data # <<>>)
       => user_recording' = OnRecordingFinished(Head(queue).data)]_vars

\* the one recording made has finished with a captured buffer, its signal has
\* been delivered, and the segment still has no user recording
C16_RecordingLost ==
    /\ RCreated = 1
    /\ r_th[1].pc = "done"
    /\ r_th[1].finished = 1
    /\ r_th[1].delivered # <<>>
    /\ queue = <<>>
    /\ ~user_recording.set
    /\ current_callback = "_stop_playing"

\* thread t left its write loop because the buffer was exhausted
RanToEnd(t) ==
    /\ p_th[t].pc \in {"close", "finally", "emit_finished", "done"}
    /\ ~p_th[t].failed
    /\ p_th[t].i >= p_th[t].n

\* the chunks of thread t are ceil(n/1024) full-size chunks at increasing
\* offsets, the last one zero padded
ChunksInOrder(t) ==
    LET w == p_th[t].written
        n == p_th[t].orig.n
    IN  /\ Len(w) = (n + ChunkSize - 1) \div ChunkSize
        /\ \A k \in 1..Len(w) :
              /\ w[k].off = (k - 1) * ChunkSize
              /\ w[k].len + w[k].pad = ChunkSize
              /\ w[k].pad > 0 => (k = Len(w) /\ w[k].len = n - w[k].off)
              /\ \A x \in w[k].samples : x.pos >= 0 /\ x.pos < w[k].len

\* C22 (as claimed): a playback that runs to the end of its buffer writes
\* ceil(n/1024) chunks of 1024 samples in offset order, the last one zero
\* padded; and a play_audio call on a buffer of 0 samples still starts a
\* session (which emits playback_started, then playback_finished).
C22_ChunksAndEmptyBuffer ==
    [][/\ \A t \in PThreads : RanToEnd(t)' => ChunksInOrder(t)'
       /\ (mpc = "play_start" /\ m_arg.n = 0 /\ mpc' = "idle")
              => PCreated' = PCreated + 1]_vars

\* a play_audio call on a buffer of 0 samples has returned through its except
\* branch: no thread was ever created, so nothing was started or finished
C22_EmptyBufferNoSession ==
    /\ play_audio_raised
    /\ mpc = "idle"
    /\ PCreated = 0
    /\ queue = <<>>

\* C23 (as claimed): a session on which no stop was requested after it was
\* started and whose device did not fail has written every chunk of its
\* buffer by the time it emits playback_finished.
C23_UnstoppedWritesAll ==
    \A t \in PThreads :
        (p_th[t].finished = 1 /\ ~p_th[t].stop_requested /\ ~p_th[t].failed)
            => WroteAll(t)

\* no stop was ever requested and no device failed, two sessions have ended,
\* and the second one wrote only the first of its two chunks
C23_CutShortByOtherSession ==
    /\ \A t \in PThreads :
          /\ p_th[t].pc = "done"
          /\ ~p_th[t].stop_requested
          /\ ~p_th[t].failed
    /\ WroteAll(1)
    /\ Len(p_th[2].written) = 1
    /\ ~WroteAll(2)

\* the threads whose chunks are in the buffer q
Readers(q) == {q[k] : k \in 1..Len(q)}

\* C24 (as claimed): the buffer a session delivers holds chunks read by that
\* session's thread only, and holds them if the thread read any (as long as
\* the modelled list did not overflow).
C24_OwnChunksOnly ==
    \A t \in RThreads :
        r_th[t].finished = 1 =>
            /\ Readers(r_th[t].delivered) \subseteq {t}
            /\ (r_th[t].got_chunk /\ ~dropped) => t \in Readers(r_th[t].delivered)

\* the first session has delivered a buffer that contains a chunk read by the
\* second session's thread
C24_ForeignChunkDelivered ==
    /\ r_th[1].finished = 1
    /\ r_th[1].pc = "done"
    /\ 2 \in Readers(r_th[1].delivered)
    /\ ~dropped

\* C25 (as claimed): the callback called when a playback or a recording
\* finishes is the one its play_audio or start_recording call was given.
C25_CompletionRouted ==
    /\ \A t \in PThreads : p_th[t].notified # None => p_th[t].notified = p_th[t].cb
    /\ \A t \in RThreads : r_th[t].notified # None => r_th[t].notified = r_th[t].cb

\* a playback started with _stop_playing has completed, and its completion
\* called the callback of the recording that was started during it
C25_PlaybackCompletionMisrouted ==
    \E t \in PThreads :
        /\ p_th[t].cb = "_stop_playing"
        /\ p_th[t].notified = "_on_recording_finished"

====
